---- MODULE Spec2Model ----
(***************************************************************************)
(* Model of src/src/index.ts: an Express application with the JSON body    *)
(* parser mounted in front of one route, GET /, and a listener that is     *)
(* started only when the module is the process's entry point.              *)
(*                                                                         *)
(* Express, body-parser and Node are modelled by what they do for the      *)
(* calls index.ts makes, with the defaults index.ts leaves in place:       *)
(* express() enables "x-powered-by"; express.json() parses bodies whose    *)
(* media type is application/json, strict, limit 100kb, inflate on.        *)
(***************************************************************************)
EXTENDS Integers, Sequences, FiniteSets, TLC

VARIABLES
    launch,       \* how the process was started: module path, argv[1], PORT
    pc,           \* module evaluation: "start", "loaded", "crashed"
    listenCalls,  \* number of app.listen calls made
    listenPort,   \* port handed to the listening socket, -1 before listen
    listening,    \* the 'listening' callback has run
    log,          \* console output
    workload,     \* which requests clients of this run send: a name, see Workload
    conns         \* connection id -> the request in flight on it

vars == <<launch, pc, listenCalls, listenPort, listening, log, workload, conns>>

----------------------------------------------------------------------------
(* Bounds *)

MaxConns == 3
MaxPathLen == 2
MaxPortLen == 5

----------------------------------------------------------------------------
(* Requests *)

Methods == {"GET", "HEAD", "POST", "PUT", "DELETE", "OPTIONS"}
Paths == {"/", "//", "/test-json", "/non-existent-route"}
Queries == {"", "test=value&foo=bar"}
UserAgents == {"curl/7.68.0", "PostmanRuntime/7.26.8"}

\* Content-Type header: media type and charset parameter ("" when absent).
NoContentType == [media |-> "", charset |-> ""]
ContentTypes ==
    { NoContentType,
      [media |-> "application/json", charset |-> ""],
      [media |-> "application/json", charset |-> "utf-8"],
      [media |-> "application/json", charset |-> "iso-8859-1"],
      [media |-> "text/plain", charset |-> ""] }

\* Content-Encoding header ("" when absent).
ContentEncodings == {"", "gzip", "compress"}

\* express.json() default limit, "100kb".
Limit == 102400

\* A body is its JSON lexemes and its size in bytes on the wire (JSON allows
\* whitespace between lexemes, so a small text can be padded to any size).
\* present = the request has a Content-Length or Transfer-Encoding header.
NoBody == [present |-> FALSE, tokens |-> <<>>, bytes |-> 0]
Bodies ==
    { NoBody,
      [present |-> TRUE, tokens |-> <<>>, bytes |-> 0],
      [present |-> TRUE, tokens |-> <<"{", "}">>, bytes |-> 2],
      [present |-> TRUE, tokens |-> <<"[", "]">>, bytes |-> 2],
      [present |-> TRUE, tokens |-> <<"{", "\"test\"", ":", "\"data\"", "}">>, bytes |-> 15],
      [present |-> TRUE, tokens |-> <<"{", "\"invalid\"", ":", "json", "}">>, bytes |-> 17],
      [present |-> TRUE, tokens |-> <<"42">>, bytes |-> 2],
      [present |-> TRUE, tokens |-> <<"{", "}">>, bytes |-> Limit],
      [present |-> TRUE, tokens |-> <<"{", "}">>, bytes |-> Limit + 1],
      [present |-> TRUE, tokens |-> <<"{", "\"invalid\"", ":", "json", "}">>, bytes |-> Limit + 1] }

Requests ==
    [ method : Methods,
      url : [path : Paths, query : Queries],
      userAgent : UserAgents,
      contentType : ContentTypes,
      contentEncoding : ContentEncodings,
      body : Bodies ]

\* A plain request, as supertest's request(app).get(path) sends it.
Plain(m, p) ==
    [ method |-> m, url |-> [path |-> p, query |-> ""],
      userAgent |-> "curl/7.68.0", contentType |-> NoContentType,
      contentEncoding |-> "", body |-> NoBody ]

\* A request carrying body b declared as application/json.
WithJson(m, p, b) ==
    [Plain(m, p) EXCEPT !.contentType = [media |-> "application/json", charset |-> ""],
                        !.body = b]

----------------------------------------------------------------------------
(* JSON.parse, over lexemes *)

StringTokens == {"\"test\"", "\"data\"", "\"invalid\""}
ScalarTokens == StringTokens \cup {"42", "true", "false", "null"}

RECURSIVE ParseValue(_, _), ParseMembers(_, _, _), ParseElements(_, _, _)

\* Index after the JSON value that starts at t[i]; 0 when there is none.
ParseValue(t, i) ==
    IF i > Len(t) THEN 0
    ELSE IF t[i] \in ScalarTokens THEN i + 1
    ELSE IF t[i] = "{" THEN ParseMembers(t, i + 1, TRUE)
    ELSE IF t[i] = "[" THEN ParseElements(t, i + 1, TRUE)
    ELSE 0

ParseMembers(t, i, first) ==
    IF i > Len(t) THEN 0
    ELSE IF first /\ t[i] = "}" THEN i + 1
    ELSE IF i + 1 <= Len(t) /\ t[i] \in StringTokens /\ t[i + 1] = ":"
         THEN LET j == ParseValue(t, i + 2) IN
              IF j = 0 \/ j > Len(t) THEN 0
              ELSE IF t[j] = "}" THEN j + 1
              ELSE IF t[j] = "," THEN ParseMembers(t, j + 1, FALSE)
              ELSE 0
    ELSE 0

ParseElements(t, i, first) ==
    IF i > Len(t) THEN 0
    ELSE IF first /\ t[i] = "]" THEN i + 1
    ELSE LET j == ParseValue(t, i) IN
         IF j = 0 \/ j > Len(t) THEN 0
         ELSE IF t[j] = "]" THEN j + 1
         ELSE IF t[j] = "," THEN ParseElements(t, j + 1, FALSE)
         ELSE 0

\* JSON.parse(text) returns (TRUE) or throws SyntaxError (FALSE).
JsonValid(t) == ParseValue(t, 1) = Len(t) + 1

----------------------------------------------------------------------------
(* app.use(express.json()) *)

\* typeis.hasBody: the request declares a body.
HasBody(req) == req.body.present

\* The default type option, "application/json", against the media type.
ShouldParse(req) == req.contentType.media = "application/json"

\* getCharset(req) || 'utf-8'
Charset(req) ==
    IF req.contentType.charset = "" THEN "utf-8" ELSE req.contentType.charset

\* charset.slice(0, 4) === 'utf-' and the decoder knows it.
UtfCharsets == {"utf-8", "utf-16", "utf-16le", "utf-32"}

\* Content encodings the reader can undo (absent means identity).
SupportedEncodings == {"", "identity", "gzip", "deflate"}

\* The parser has nothing to do for this request and calls next() at once.
SkipsParsing(req) == ~HasBody(req) \/ ~ShouldParse(req)

\* The checks made before the body is read: the error status, 0 for none.
HeaderError(req) ==
    IF SkipsParsing(req) THEN 0
    ELSE IF Charset(req) \notin UtfCharsets THEN 415
    ELSE IF req.contentEncoding \notin SupportedEncodings THEN 415
    ELSE 0

\* Mutant: strict mode that admits objects only.
StrictOk_ObjectsOnly(t) == Len(t) > 0 /\ t[1] = "{"

\* strict: the first non-whitespace character must open an object or array.
StrictOk(t) == Len(t) > 0 /\ t[1] \in {"{", "["}

\* Mutant: the strict check alone, JSON.parse's SyntaxError swallowed.
ParseError_NoSyntaxCheck(body) ==
    IF body.bytes = 0 THEN 0
    ELSE IF ~StrictOk(body.tokens) THEN 400
    ELSE 0

\* parse(body): an empty body is {}; the error status, 0 for none.
ParseError(body) ==
    IF body.bytes = 0 THEN 0
    ELSE IF ~StrictOk(body.tokens) THEN 400
    ELSE IF ~JsonValid(body.tokens) THEN 400
    ELSE 0

\* Once the body has been read: over the limit, or what parse makes of it.
ReadError(req) ==
    IF req.body.bytes > Limit THEN 413 ELSE ParseError(req.body)

----------------------------------------------------------------------------
(* Responses *)

NoBodyOut == [type |-> "none", content |-> <<>>]
NoRes == [status |-> 0, headers |-> {}, body |-> NoBodyOut]

\* express() leaves the "x-powered-by" setting enabled.
XPoweredBy == TRUE

\* Headers app.handle sets on every response before the stack runs.
InitHeaders == IF XPoweredBy THEN {<<"X-Powered-By", "Express">>} ELSE {}

\* res.send / res.end: a HEAD response keeps its headers and loses its body.
Send(req, res) ==
    IF req.method = "HEAD" THEN [res EXCEPT !.body = NoBodyOut] ELSE res

\* Mutant: another message text.
RootHandler_Reworded(req) ==
    [ status |-> 200,
      headers |-> InitHeaders \cup {<<"Content-Type", "application/json; charset=utf-8">>},
      body |-> [type |-> "json",
                content |-> << <<"status", "ok">>, <<"message", "Server is running">> >>] ]

\* Mutant: the payload echoes the request's query string.
RootHandler_Echo(req) ==
    [ status |-> 200,
      headers |-> InitHeaders \cup {<<"Content-Type", "application/json; charset=utf-8">>},
      body |-> [type |-> "json",
                content |-> << <<"status", "ok">>, <<"message", "Server running">>,
                               <<"query", req.url.query>> >>] ]

\* res.json({status: 'ok', message: 'Server running'})
RootHandler(req) ==
    [ status |-> 200,
      headers |-> InitHeaders \cup {<<"Content-Type", "application/json; charset=utf-8">>},
      body |-> [type |-> "json",
                content |-> << <<"status", "ok">>, <<"message", "Server running">> >>] ]

\* The router's automatic answer to OPTIONS on a path that has routes.
OptionsResponse(req) ==
    [ status |-> 200,
      headers |-> InitHeaders \cup {<<"Allow", "GET,HEAD">>,
                                    <<"Content-Type", "text/html; charset=utf-8">>},
      body |-> [type |-> "text", content |-> << <<"GET", "HEAD">> >>] ]

\* Mutant: a final handler that ignores the error's own status.
FinalHandler_500(req, err) ==
    [ status |-> IF err = 0 THEN 404 ELSE 500,
      headers |-> InitHeaders \cup {<<"Content-Security-Policy", "default-src 'none'">>,
                                    <<"X-Content-Type-Options", "nosniff">>,
                                    <<"Content-Type", "text/html; charset=utf-8">>},
      body |-> [type |-> "html", content |-> << <<req.method, req.url.path>> >>] ]

\* finalhandler: nothing answered (err = 0, 404) or a middleware failed.
FinalHandler(req, err) ==
    [ status |-> IF err = 0 THEN 404 ELSE err,
      headers |-> InitHeaders \cup {<<"Content-Security-Policy", "default-src 'none'">>,
                                    <<"X-Content-Type-Options", "nosniff">>,
                                    <<"Content-Type", "text/html; charset=utf-8">>},
      body |-> [type |-> "html", content |-> << <<req.method, req.url.path>> >>] ]

----------------------------------------------------------------------------
(* app.get('/', handler) *)

\* parseurl(req).pathname: the query string is not part of the path.
Pathname(url) == url.path

\* Mutant: the path matched as a prefix, as app.use('/') would.
MatchPath_Any(path) == TRUE

\* The route's path '/', matched to the end, trailing slash optional.
MatchPath(path) == path \in {"", "/"}

\* Mutant: no HEAD fallback to the GET handler.
HandlesMethod_Exact(method) == method = "GET"

\* Route._handles_method: a route with a GET handler also handles HEAD.
HandlesMethod(method) ==
    LET name == IF method = "HEAD" THEN "GET" ELSE method
    IN  name = "GET"

\* The stack after the body parser: the route, else OPTIONS, else not found.
\* handled = the route handler ran.
Router(req) ==
    IF MatchPath(Pathname(req.url)) /\ HandlesMethod(req.method)
      THEN [res |-> Send(req, RootHandler(req)), handled |-> TRUE]
    ELSE IF MatchPath(Pathname(req.url)) /\ req.method = "OPTIONS"
      THEN [res |-> Send(req, OptionsResponse(req)), handled |-> FALSE]
    ELSE [res |-> Send(req, FinalHandler(req, 0)), handled |-> FALSE]

\* next(err): an error skips the route and goes to the final handler.
Handle(req, err) ==
    IF err # 0
      THEN [res |-> Send(req, FinalHandler(req, err)), handled |-> FALSE]
      ELSE Router(req)

----------------------------------------------------------------------------
(* Starting the process *)

\* Script paths: "/" and up to MaxPathLen further characters.
PathChars == {"a", " "}
ScriptPaths ==
    { <<"/">> \o s : s \in UNION { [1..n -> PathChars] : n \in 1..MaxPathLen } }

\* process.env.PORT: unset, or a string of up to MaxPortLen digits.
PortDigits == {"0", "8"}
PortStrings == UNION { [1..n -> PortDigits] : n \in 0..MaxPortLen }
PortEnvs ==
    {[set |-> FALSE, value |-> <<>>]} \cup {[set |-> TRUE, value |-> v] : v \in PortStrings}

Launches == [modulePath : ScriptPaths, argv1 : ScriptPaths, env : PortEnvs]

\* The module is the script node was started with.
RunAsMain(l) == l.argv1 = l.modulePath

\* The launch of a test harness that imports the module.
HarnessLaunch ==
    [ modulePath |-> <<"/", "a">>, argv1 |-> <<"/", "a", "a">>,
      env |-> [set |-> FALSE, value |-> <<>>] ]

RECURSIVE PercentEncode(_)
\* The path as it is written in a file: URL.
PercentEncode(p) ==
    IF p = <<>> THEN <<>>
    ELSE (IF Head(p) = " " THEN <<"%", "2", "0">> ELSE <<Head(p)>>)
         \o PercentEncode(Tail(p))

\* import.meta.url of the module
ImportMetaUrl(modulePath) == <<"file://">> \o PercentEncode(modulePath)

\* import.meta.url === `file://${process.argv[1]}`
isMainModule(l) == ImportMetaUrl(l.modulePath) = <<"file://">> \o l.argv1

DefaultPort == 3000
MaxPortNumber == 65535

\* Mutant: process.env.PORT || 3000, which also replaces an empty PORT.
PORT_Or(env) ==
    IF env.set /\ env.value # <<>>
      THEN [kind |-> "string", str |-> env.value, num |-> 0]
      ELSE [kind |-> "number", str |-> <<>>, num |-> 3000]

\* process.env.PORT ?? 3000: the string when set (also when empty).
PORT(env) ==
    IF env.set THEN [kind |-> "string", str |-> env.value, num |-> 0]
    ELSE [kind |-> "number", str |-> <<>>, num |-> DefaultPort]

DigitValue(d) == CASE d = "0" -> 0 [] d = "8" -> 8

RECURSIVE ToNumber(_)
\* Number(string) for a string of decimal digits.
ToNumber(s) ==
    IF s = <<>> THEN 0
    ELSE 10 * ToNumber(SubSeq(s, 1, Len(s) - 1)) + DigitValue(s[Len(s)])

\* The port number listen() makes of its argument.
PortNumber(port) == IF port.kind = "string" THEN ToNumber(port.str) ELSE port.num

\* listen() validates the port: an empty string or a number above 65535 throws.
PortValid(port) ==
    /\ port.kind = "string" => port.str # <<>>
    /\ PortNumber(port) \in 0..MaxPortNumber

----------------------------------------------------------------------------
(* State *)

Idle == [pc |-> "idle", req |-> Plain("GET", "/"), res |-> NoRes, handled |-> FALSE]

\* Requests reach the handler through the listening socket, or through a
\* harness that imported the module and calls the exported app itself.
Serving ==
    /\ pc = "loaded"
    /\ listening \/ ~RunAsMain(launch)

\* The module has been imported by a test harness; one client.
Init ==
    /\ launch = HarnessLaunch
    /\ pc = "loaded"
    /\ listenCalls = 0
    /\ listenPort = -1
    /\ listening = FALSE
    /\ log = <<>>
    /\ workload = "all"
    /\ conns = [c \in {1} |-> Idle]

\* Requests used where several are in flight at once.
ConcRequests ==
    { Plain("GET", "/"),
      [Plain("GET", "/") EXCEPT !.url.query = "test=value&foo=bar"],
      [Plain("GET", "/") EXCEPT !.userAgent = "PostmanRuntime/7.26.8"],
      WithJson("GET", "/", [present |-> TRUE, tokens |-> <<"{", "}">>, bytes |-> 2]),
      WithJson("POST", "/test-json",
               [present |-> TRUE, tokens |-> <<"{", "\"test\"", ":", "\"data\"", "}">>, bytes |-> 15]),
      WithJson("POST", "/test-json",
               [present |-> TRUE, tokens |-> <<"{", "\"invalid\"", ":", "json", "}">>, bytes |-> 17]),
      WithJson("GET", "/",
               [present |-> TRUE, tokens |-> <<"{", "\"invalid\"", ":", "json", "}">>, bytes |-> 17]),
      Plain("GET", "/non-existent-route"),
      Plain("POST", "/"),
      Plain("HEAD", "/") }

InitConc ==
    /\ launch = HarnessLaunch
    /\ pc = "loaded"
    /\ listenCalls = 0
    /\ listenPort = -1
    /\ listening = FALSE
    /\ log = <<>>
    /\ workload = "concurrent"
    /\ conns = [c \in 1..MaxConns |-> Idle]

BootRequests ==
    { Plain("GET", "/"),
      WithJson("POST", "/test-json",
               [present |-> TRUE, tokens |-> <<"{", "\"invalid\"", ":", "json", "}">>, bytes |-> 17]) }

\* The process before index.ts is evaluated, for every way of starting it.
InitBoot ==
    /\ launch \in Launches
    /\ pc = "start"
    /\ listenCalls = 0
    /\ listenPort = -1
    /\ listening = FALSE
    /\ log = <<>>
    /\ workload = "boot"
    /\ conns = [c \in {1} |-> Idle]

\* The requests a run's clients choose from.
Workload(w) ==
    CASE w = "all" -> Requests
      [] w = "concurrent" -> ConcRequests
      [] w = "boot" -> BootRequests

----------------------------------------------------------------------------
(* Actions *)

Respond(c, req, err) ==
    LET out == Handle(req, err) IN
    conns' = [conns EXCEPT ![c] = [pc |-> "responded", req |-> req,
                                   res |-> out.res, handled |-> out.handled]]

\* A request arrives: app(req, res) runs the stack up to the point where the
\* body parser waits for the body, or to the response when it does not.
Request ==
  \E c \in DOMAIN conns :
    /\ Serving
    /\ conns[c].pc = "idle"
    /\ \E req \in Workload(workload) :
         IF SkipsParsing(req) \/ HeaderError(req) # 0
           THEN Respond(c, req, HeaderError(req))
           ELSE conns' = [conns EXCEPT ![c] = [pc |-> "reading", req |-> req,
                                               res |-> NoRes, handled |-> FALSE]]
    /\ UNCHANGED <<launch, pc, listenCalls, listenPort, listening, log, workload>>

\* The body has been read: the parser fails or calls next(), and the rest of
\* the stack runs to the response.
BodyEnd ==
  \E c \in DOMAIN conns :
    /\ conns[c].pc = "reading"
    /\ Respond(c, conns[c].req, ReadError(conns[c].req))
    /\ UNCHANGED <<launch, pc, listenCalls, listenPort, listening, log, workload>>

\* The client has its response; the connection takes the next request.
Close ==
  \E c \in DOMAIN conns :
    /\ conns[c].pc = "responded"
    /\ conns' = [conns EXCEPT ![c] = Idle]
    /\ UNCHANGED <<launch, pc, listenCalls, listenPort, listening, log, workload>>

\* index.ts is evaluated, top to bottom.
LoadModule ==
    /\ pc = "start"
    /\ IF isMainModule(launch)
         THEN /\ listenCalls' = listenCalls + 1
              /\ IF PortValid(PORT(launch.env))
                   THEN /\ listenPort' = PortNumber(PORT(launch.env))
                        /\ pc' = "loaded"
                   ELSE /\ listenPort' = listenPort
                        /\ pc' = "crashed"
         ELSE /\ pc' = "loaded"
              /\ UNCHANGED <<listenCalls, listenPort>>
    /\ UNCHANGED <<launch, listening, log, workload, conns>>

\* The socket is bound: the callback given to app.listen logs the port.
Listening ==
    /\ pc = "loaded"
    /\ listenCalls > 0
    /\ ~listening
    /\ listening' = TRUE
    /\ log' = Append(log, [msg |-> "Server running on port", port |-> PORT(launch.env)])
    /\ UNCHANGED <<launch, pc, listenCalls, listenPort, workload, conns>>

\* The socket cannot be bound (the port is taken): the unhandled 'error'
\* event ends the process.
ListenFailed ==
    /\ pc = "loaded"
    /\ listenCalls > 0
    /\ ~listening
    /\ pc' = "crashed"
    /\ UNCHANGED <<launch, listenCalls, listenPort, listening, log, workload, conns>>

Next == Request \/ BodyEnd \/ Close

NextBoot == LoadModule \/ Listening \/ ListenFailed \/ Next

Spec == Init /\ [][Next]_vars
SpecConc == InitConc /\ [][Next]_vars
SpecBoot == InitBoot /\ [][NextBoot]_vars

----------------------------------------------------------------------------
(* Vocabulary of the properties *)

Conns == DOMAIN conns
Responded(c) == conns[c].pc = "responded"
InFlight(c) == conns[c].pc \in {"reading", "responded"}

IsGetRoot(req) == req.method = "GET" /\ req.url.path = "/"
DeclaredJson(req) == req.body.present /\ req.contentType.media = "application/json"
Decodable(req) == Charset(req) \in UtfCharsets /\ req.contentEncoding \in SupportedEncodings

\* A JSON-declared, non-empty body that is not syntactically valid JSON.
MalformedJson(req) ==
    DeclaredJson(req) /\ req.body.bytes > 0 /\ ~JsonValid(req.body.tokens)

\* The body parser has no objection: no JSON-declared body, or one that is
\* decodable, at most 100kb, and empty or a valid JSON object or array.
ParserAccepts(req) ==
    \/ ~DeclaredJson(req)
    \/ /\ Decodable(req)
       /\ req.body.bytes <= 102400
       /\ \/ req.body.bytes = 0
          \/ req.body.tokens[1] \in {"{", "["} /\ JsonValid(req.body.tokens)

HealthJson ==
    [type |-> "json", content |-> << <<"status", "ok">>, <<"message", "Server running">> >>]

----------------------------------------------------------------------------
(* C1 *)

----------------------------------------------------------------------------
(* C2 *)

\* C2 as stated: every request whose path is not /, and every request to /
\* whose method is not GET, is answered 404.
C2_NotGetRoot ==
    \A c \in Conns :
        Responded(c) /\ ~IsGetRoot(conns[c].req) => conns[c].res.status = 404

\* C2 amended: every request the body parser does not reject whose path is
\* not /, or whose method on / is none of GET, HEAD and OPTIONS, is answered
\* 404.
C2_NotFound ==
    \A c \in Conns :
        /\ Responded(c)
        /\ ParserAccepts(conns[c].req)
        /\ \/ conns[c].req.url.path # "/"
           \/ conns[c].req.method \notin {"GET", "HEAD", "OPTIONS"}
        => conns[c].res.status = 404

C2_Witness ==
    \E c \in Conns :
        /\ Responded(c)
        /\ conns[c].req.method = "DELETE" /\ conns[c].req.url.path = "/"
        /\ conns[c].res.status = 404

----------------------------------------------------------------------------
(* C3 *)

\* C3 as stated: every request with a JSON-declared body that is not valid
\* JSON is answered 400 and never reaches a route handler, for every method
\* and path.
C3_Always400 ==
    \A c \in Conns :
        InFlight(c) /\ MalformedJson(conns[c].req)
            => /\ ~conns[c].handled
               /\ Responded(c) => conns[c].res.status = 400

\* C3 amended: every request with a JSON-declared body that is not valid JSON
\* is rejected by the body parser and never reaches a route handler, for every
\* method and path; the status is 400 when the body is decodable and at most
\* 100kb, 415 when its charset or content encoding is unsupported, and
\* otherwise 413 (over 100kb).
C3_Malformed ==
    \A c \in Conns :
        InFlight(c) /\ MalformedJson(conns[c].req)
            => /\ ~conns[c].handled
               /\ Responded(c) =>
                    conns[c].res.status =
                        IF ~Decodable(conns[c].req) THEN 415
                        ELSE IF conns[c].req.body.bytes > 102400 THEN 413
                        ELSE 400

C3_Witness ==
    \E c \in Conns :
        /\ Responded(c) /\ MalformedJson(conns[c].req)
        /\ IsGetRoot(conns[c].req)
        /\ conns[c].res.status = 400

----------------------------------------------------------------------------
(* C4 *)

\* C4 as stated: a request with a JSON-declared, syntactically valid JSON
\* body on any method/path other than GET / is answered 404, never 400.
C4_ValidJson ==
    \A c \in Conns :
        /\ Responded(c)
        /\ DeclaredJson(conns[c].req) /\ JsonValid(conns[c].req.body.tokens)
        /\ ~IsGetRoot(conns[c].req)
        => conns[c].res.status = 404

\* C4 amended: a request with a JSON-declared body that is a valid JSON object
\* or array, decodable and at most 100kb, passes the body parser and is
\* dispatched by method and path: the status is never 400, 413 or 415, and it
\* is 404 on every path other than / and for every method on / other than
\* GET, HEAD and OPTIONS.
C4_ObjectOrArray ==
    \A c \in Conns :
        /\ Responded(c)
        /\ DeclaredJson(conns[c].req) /\ JsonValid(conns[c].req.body.tokens)
        /\ conns[c].req.body.tokens[1] \in {"{", "["}
        /\ Decodable(conns[c].req) /\ conns[c].req.body.bytes <= 102400
        => /\ conns[c].res.status \notin {400, 413, 415}
           /\ \/ conns[c].req.url.path # "/"
              \/ conns[c].req.method \notin {"GET", "HEAD", "OPTIONS"}
              => conns[c].res.status = 404

C4_Witness ==
    \E c \in Conns :
        /\ Responded(c)
        /\ conns[c].req.method = "POST" /\ conns[c].req.url.path = "/test-json"
        /\ DeclaredJson(conns[c].req) /\ conns[c].req.body.tokens = <<"{", "}">>
        /\ conns[c].req.body.bytes = 2
        /\ conns[c].res.status = 404

----------------------------------------------------------------------------
(* C5 *)

\* A GET / request as a client issues it: GET requests carry no body.
IsHealthCheck(req) == IsGetRoot(req) /\ ~req.body.present

----------------------------------------------------------------------------
(* C6 *)

HeaderNames(res) == { h[1] : h \in res.headers }

\* C6: the response to GET / never carries an X-Powered-By header.
C6_NoPoweredBy ==
    \A c \in Conns :
        Responded(c) /\ IsGetRoot(conns[c].req)
            => "X-Powered-By" \notin HeaderNames(conns[c].res)

----------------------------------------------------------------------------
(* C7 *)

\* C7: once the module has been evaluated, app.listen has been called (once)
\* if and only if the module is the process's entry point, never otherwise;
\* and an importer's requests are answered though nothing listens.
C7_ListenIffMain ==
    /\ pc # "start" => (listenCalls = 1 <=> RunAsMain(launch))
    /\ listenCalls <= 1
    /\ \A c \in Conns : Responded(c) /\ ~RunAsMain(launch) => listenCalls = 0

----------------------------------------------------------------------------
(* C8 *)

----------------------------------------------------------------------------
(* C9 *)

----------------------------------------------------------------------------
(* C10 *)

====
